---- MODULE Spec2Model ----
(***************************************************************************)
(* Model of the registration client of FreeCoAP's reg_client sample:       *)
(* src/sample/reg_client/reg_client.c, function reg_client_register.       *)
(*                                                                         *)
(* One register call is modelled step by step (pc is the position in the   *)
(* function body).  Bytes are numbers (ASCII codes), a C string is the     *)
(* prefix of a byte array before its first zero byte.                      *)
(***************************************************************************)
EXTENDS Integers, Sequences, FiniteSets, TLC

(***************************************************************************)
(* Bounds of the model.                                                    *)
(***************************************************************************)
\* size of the array the caller's buf points into (len may be smaller)
MemLen == 4
\* longest payload a response carries
MaxPayloadLen == 3

(***************************************************************************)
(* Program constants.                                                      *)
(***************************************************************************)
REG_CLIENT_URI_PATH_BUF_LEN == 32
\* values of coap_msg.h (CoAP, RFC 7252) and of errno.h (Linux) that
\* reg_client_register uses by name
COAP_MSG_VER == 1
COAP_MSG_CON == 0
COAP_MSG_ACK == 2
COAP_MSG_REQ == 0
COAP_MSG_GET == 1
COAP_MSG_POST == 2
COAP_MSG_SUCCESS == 2
COAP_MSG_CLIENT_ERR == 4
COAP_MSG_CREATED == 1
COAP_MSG_CHANGED == 4
COAP_MSG_CONTENT == 5
COAP_MSG_URI_PATH == 11
EBADMSG == 74
ENOSPC == 28
ENOMEM == 12
ETIMEDOUT == 110
EINVAL == 22
\* the return value of coap_client_exchange that marks a DTLS failure
DTLS_FAILURE == 1

\* bytes: the terminator and the characters 'O', 'K', '/'
NUL == 0
ChO == 79
ChK == 75
ChSlash == 47

Byte == {NUL, ChO, ChK}

\* "client", "id", "OK", "/client/id" as byte sequences
StrClient == <<99, 108, 105, 101, 110, 116>>
StrId == <<105, 100>>
StrOK == <<ChO, ChK>>
StrClientId == <<ChSlash>> \o StrClient \o <<ChSlash>> \o StrId

(***************************************************************************)
(* C library functions, as they compute.                                   *)
(***************************************************************************)
\* all sequences over S of length 0..k
SeqUpTo(S, k) == UNION {[1..m -> S] : m \in 0..k}

HasNul(b) == \E i \in 1..Len(b) : b[i] = NUL

\* strlen: the number of bytes before the first zero byte
StrLen(b) ==
    IF HasNul(b)
    THEN (CHOOSE i \in 1..Len(b) : b[i] = NUL /\ \A j \in 1..(i - 1) : b[j] # NUL) - 1
    ELSE Len(b)

\* the C string held in an array
CStr(b) == SubSeq(b, 1, StrLen(b))

\* strcmp(a, lit) == 0 for an array a and a literal without zero bytes
StrCmpEq(a, lit) == CStr(a) = lit

\* memcpy(b, p, n): bytes 0..n-1 of b are those of p
MemCpy(b, p, n) == [i \in 1..Len(b) |-> IF i <= n THEN p[i] ELSE b[i]]

\* memset(b + off, 0, cnt): bytes off..off+cnt-1 of b are zero
MemSet0(b, off, cnt) ==
    [i \in 1..Len(b) |-> IF i > off /\ i <= off + cnt THEN NUL ELSE b[i]]

(***************************************************************************)
(* coap_msg: the message library (lib/src/coap_msg.c is not part of the    *)
(* sources at hand; its operations are modelled from their contract).      *)
(***************************************************************************)
\* coap_msg_t after coap_msg_create / {0}
EmptyMsg ==
    [ver |-> COAP_MSG_VER, type |-> COAP_MSG_CON, code_class |-> 0,
     code_detail |-> 0, ops |-> <<>>, has_payload |-> FALSE, payload |-> <<>>]

\* coap_msg_add_op: appends an option (options of one number keep their order)
MsgAddOp(m, num, val) == [m EXCEPT !.ops = Append(@, [num |-> num, val |-> val])]

\* coap_msg_set_code: stores the class and the detail of the code
MsgSetCode(m, class, detail) == [m EXCEPT !.code_class = class, !.code_detail = detail]

\* coap_msg_set_payload: no payload buffer is allocated for length 0
MsgSetPayload(m, bytes) ==
    [m EXCEPT !.has_payload = Len(bytes) > 0, !.payload = bytes]

RECURSIVE RenderPath(_)
\* the text of the URI path options: "/" and the segment, for each in order
RenderPath(ops) ==
    IF ops = <<>> THEN <<>>
    ELSE IF Head(ops).num = COAP_MSG_URI_PATH
         THEN <<ChSlash>> \o Head(ops).val \o RenderPath(Tail(ops))
         ELSE RenderPath(Tail(ops))

\* coap_msg_uri_path_to_str(msg, buf, len): the length of the whole text
UriPathStrLen(m) == Len(RenderPath(m.ops))

\* coap_msg_uri_path_to_str(msg, buf, len): buf afterwards, the text cut to
\* len - 1 bytes and zero-terminated
UriPathToStr(m, size) ==
    LET text == RenderPath(m.ops)
    IN [i \in 1..size |-> IF i <= Len(text) /\ i <= size - 1 THEN text[i] ELSE NUL]

(***************************************************************************)
(* State.                                                                  *)
(***************************************************************************)
VARIABLES
    pc,         \* position in reg_client_register ("idle": not called yet)
    buf,        \* the caller's array, MemLen bytes
    len,        \* the capacity the caller passes
    req,        \* local coap_msg_t req
    resp,       \* local coap_msg_t resp
    n,          \* local size_t n
    p,          \* local char *p: the bytes it points to
    uri_path,   \* local char uri_path[REG_CLIENT_URI_PATH_BUF_LEN]
    created,    \* local int created
    ret,        \* the value returned to the caller (at pc = "done")
    log,        \* the entries written with coap_log_error / coap_log_info
    life,       \* per message object: times created, times destroyed
    sent,       \* the requests handed to coap_client_exchange, in order
    reply,      \* the responses coap_client_exchange delivered, in order
    buf0,       \* the caller's array as it was when the call was made
    visited,    \* the steps of the call executed so far, in order
    calls,      \* the status results of the library calls of the call, in order
    prev        \* what the previous register call left (none: <<>>)

\* the state of a register call
regvars == <<pc, buf, len, req, resp, n, p, uri_path, created, ret, log, life,
             sent, reply, buf0, visited, calls>>

VARIABLES
    client,     \* the bytes of the caller's reg_client_t
    cpc,        \* position in reg_client_create / reg_client_destroy
    cret,       \* local int ret of reg_client_create
    cops        \* history: the client operations that returned, with their results

clientvars == <<client, cpc, cret, cops>>

VARIABLES
    spc,        \* position in main of the server
    server,     \* coap_server_t server: times created, times destroyed
    sret,       \* local int ret of main
    exit,       \* <<>> while main runs, <<status>> once it returned
    scalls,     \* history: the server library calls of main, with their results
    handled,    \* number of requests the library has handed to server_handle
    hpc,        \* position in server_handle
    hreq,       \* the message req points to
    hresp,      \* the message resp points to
    hret,       \* the value server_handle returned
    hreq0,      \* history: the request at the entry of server_handle
    hresp0,     \* history: the response at the entry of server_handle
    hcalls,     \* history: the message library calls of server_handle
    out         \* what the server wrote to stderr and stdout

servervars == <<spc, server, sret, exit, scalls, handled,
                hpc, hreq, hresp, hret, hreq0, hresp0, hcalls, out>>

\* the state outside a register call
others == <<prev, clientvars, servervars>>

vars == <<regvars, others>>

\* coap_msg_t x = {0}
ZeroMsg == [EmptyMsg EXCEPT !.ver = 0]

ZeroPath == [i \in 1..REG_CLIENT_URI_PATH_BUF_LEN |-> NUL]

(***************************************************************************)
(* The inputs: the caller's buffers and the transport's answers.           *)
(***************************************************************************)
\* an identity of 0..MemLen-1 characters, its terminator, and stale
\* non-zero bytes behind it
CallerBuffers ==
    {[i \in 1..MemLen |-> IF i = k THEN NUL ELSE ChK] : k \in 1..MemLen}

Versions == {COAP_MSG_VER, COAP_MSG_VER + 1}

Codes == {<<COAP_MSG_SUCCESS, COAP_MSG_CREATED>>,
          <<COAP_MSG_SUCCESS, COAP_MSG_CHANGED>>,
          <<COAP_MSG_SUCCESS, COAP_MSG_CONTENT>>,
          <<COAP_MSG_CLIENT_ERR, COAP_MSG_CHANGED>>}

UriPathOp(val) == [num |-> COAP_MSG_URI_PATH, val |-> val]

\* a segment of k characters 'K'
Filler(k) == [i \in 1..k |-> ChK]

\* /client/id, /id/client, and /client/id/KK..K rendering to exactly
\* REG_CLIENT_URI_PATH_BUF_LEN - 1, REG_CLIENT_URI_PATH_BUF_LEN and
\* REG_CLIENT_URI_PATH_BUF_LEN + 2 characters
Paths ==
    {<<UriPathOp(StrClient), UriPathOp(StrId)>>,
     <<UriPathOp(StrId), UriPathOp(StrClient)>>}
    \cup
    {<<UriPathOp(StrClient), UriPathOp(StrId),
       UriPathOp(Filler(k - Len(StrClientId) - 1))>> :
        k \in {REG_CLIENT_URI_PATH_BUF_LEN - 1, REG_CLIENT_URI_PATH_BUF_LEN,
               REG_CLIENT_URI_PATH_BUF_LEN + 2}}

Payloads == SeqUpTo(Byte, MaxPayloadLen)

Replies ==
    {[ver |-> v, type |-> COAP_MSG_ACK, code_class |-> c[1], code_detail |-> c[2],
      ops |-> o, has_payload |-> Len(b) > 0, payload |-> b] :
        v \in Versions, c \in Codes, o \in Paths, b \in Payloads}

\* results of coap_client_exchange: success, the DTLS failure, a timeout
ExchangeResults == {0, -DTLS_FAILURE, -ETIMEDOUT}

\* results of coap_msg_add_op and coap_msg_set_payload
BuildResults == {0, -ENOMEM}

(***************************************************************************)
(* Logging and message lifetime.                                           *)
(***************************************************************************)
\* variant: the format arguments are not passed on
LogErrorDropsValue(msg, val) ==
    log' = Append(log, [level |-> "error", msg |-> msg, val |-> <<>>])

LogError(msg, val) == log' = Append(log, [level |-> "error", msg |-> msg, val |-> val])
LogInfo(msg, val) == log' = Append(log, [level |-> "info", msg |-> msg, val |-> val])

\* coap_msg_create(&x)
Create(l, x) == [l EXCEPT ![x].created = @ + 1]
\* coap_msg_destroy(&x)
Destroy(l, x) == [l EXCEPT ![x].destroyed = @ + 1]

NoLife == [x \in {"req", "resp"} |-> [created |-> 0, destroyed |-> 0]]

\* sizeof(reg_client_t), in bytes of the model
ClientLen == 2

ZeroClient == [i \in 1..ClientLen |-> 0]

\* a client that reg_client_create has filled
ReadyClient == [i \in 1..ClientLen |-> 1]

\* reg_client_register is not running: its locals as their initialisers leave them
InitRegister ==
    /\ pc = "idle"
    /\ len = 0
    /\ req = ZeroMsg
    /\ resp = ZeroMsg
    /\ n = 0
    /\ p = <<>>
    /\ uri_path = ZeroPath
    /\ created = FALSE
    /\ ret = 0
    /\ log = <<>>
    /\ life = NoLife
    /\ sent = <<>>
    /\ reply = <<>>
    /\ buf0 = buf
    /\ visited = <<>>
    /\ calls = <<>>
    /\ prev = <<>>

\* the client was created before reg_client_register is called
InitClientReady ==
    /\ client = ReadyClient
    /\ cpc = "rest"
    /\ cret = 0
    /\ cops = <<[op |-> "create", rc |-> 0, lib |-> 0, left |-> ReadyClient]>>

\* the server program has not started
InitServerOff ==
    /\ spc = "create"
    /\ server = [created |-> 0, destroyed |-> 0]
    /\ sret = 0
    /\ exit = <<>>
    /\ scalls = <<>>
    /\ handled = 0
    /\ hpc = "idle"
    /\ hreq = ZeroMsg
    /\ hresp = ZeroMsg
    /\ hret = 0
    /\ hreq0 = ZeroMsg
    /\ hresp0 = ZeroMsg
    /\ hcalls = <<>>
    /\ out = <<>>

Init ==
    /\ buf \in CallerBuffers
    /\ InitRegister
    /\ InitClientReady
    /\ InitServerOff

(***************************************************************************)
(* The checks of reg_client_register, as the code writes them.             *)
(***************************************************************************)
\* coap_msg_get_ver(&req) != coap_msg_get_ver(&resp)
VersionInvalid(rq, rs) == rq.ver # rs.ver

\* variant: the two tests joined with && in place of ||
CodeInvalidConj(rs) ==
    /\ rs.code_class # COAP_MSG_SUCCESS
    /\ (rs.code_detail # COAP_MSG_CREATED /\ rs.code_detail # COAP_MSG_CHANGED)

\* class != SUCCESS || (detail != CREATED && detail != CHANGED)
CodeInvalid(rs) ==
    \/ rs.code_class # COAP_MSG_SUCCESS
    \/ (rs.code_detail # COAP_MSG_CREATED /\ rs.code_detail # COAP_MSG_CHANGED)

\* variant: compared with the wrong detail
IsCreatedSwapped(rs) == rs.code_detail = COAP_MSG_CHANGED

\* created = coap_msg_get_code_detail(&resp) == COAP_MSG_CREATED
IsCreated(rs) == rs.code_detail = COAP_MSG_CREATED

\* variant: the terminator is not counted
UriPathTooSmallOffByOne(k) == k > REG_CLIENT_URI_PATH_BUF_LEN

\* (n + 1) > sizeof(uri_path)
UriPathTooSmall(k) == (k + 1) > REG_CLIENT_URI_PATH_BUF_LEN

\* variant: strncmp over the length of the literal
UriPathInvalidPrefixOnly(path) ==
    SubSeq(path, 1, Len(StrClientId)) # StrClientId

\* strcmp(uri_path, "/client/id") != 0
UriPathInvalid(path) == ~StrCmpEq(path, StrClientId)

\* variant: the presence test is missing
PayloadInvalidNever(rs) == FALSE

\* (p == NULL) || (n == 0)
PayloadInvalid(rs) == (~rs.has_payload) \/ (Len(rs.payload) = 0)

\* variant: the terminator is not counted in the capacity check
BufTooSmallOffByOne(k, l) == k > l

\* (n + 1) > len
BufTooSmall(k, l) == (k + 1) > l

\* variant: the terminator is not counted
ShortfallNoTerminator(k, size) == k - size

\* the shortfall the two "too small" entries report: (n + 1) - size
Shortfall(k, size) == (k + 1) - size

\* variant: only the terminator is written behind the payload
CopyPayloadTerminatorOnly(b, bytes, k, l) == MemSet0(MemCpy(b, bytes, k), k, 1)

\* memcpy(buf, p, n); memset(buf + n, 0, len - n)
CopyPayload(b, bytes, k, l) == MemSet0(MemCpy(b, bytes, k), k, l - k)

\* strcmp(buf, "OK") != 0
AckInvalid(b) == ~StrCmpEq(b, StrOK)

(***************************************************************************)
(* reg_client_register, step by step.                                      *)
(***************************************************************************)
\* variant: a branch that destroys the response forgets the request
ReturnLeaksReq(rc, ms) ==
    /\ ret' = rc
    /\ pc' = "done"
    /\ life' = IF "resp" \in ms THEN Destroy(life, "resp")
                ELSE IF "req" \in ms THEN Destroy(life, "req") ELSE life
    /\ req' = IF ms = {"req"} THEN ZeroMsg ELSE req
    /\ resp' = IF "resp" \in ms THEN ZeroMsg ELSE resp

\* return rc after coap_msg_destroy of the messages in ms
Return(rc, ms) ==
    /\ ret' = rc
    /\ pc' = "done"
    /\ life' = [x \in DOMAIN life |-> IF x \in ms THEN Destroy(life, x)[x] ELSE life[x]]
    /\ req' = IF "req" \in ms THEN ZeroMsg ELSE req
    /\ resp' = IF "resp" \in ms THEN ZeroMsg ELSE resp

\* the caller invokes reg_client_register(client, buf, l); the locals are
\* initialised, the request is created and its type and code are set
Call ==
    /\ pc = "idle"
    /\ visited' = Append(visited, "call")
    /\ buf0' = buf
    /\ UNCHANGED others
    /\ HasNul(buf)
    /\ \E l \in 0..MemLen : len' = l
    /\ req' = [EmptyMsg EXCEPT !.type = COAP_MSG_CON,
                               !.code_class = COAP_MSG_REQ,
                               !.code_detail = COAP_MSG_POST]
    /\ life' = Create(life, "req")
    /\ LogInfo("Sending POST /client/id request with payload", <<CStr(buf)>>)
    /\ pc' = "add_op_client"
    /\ UNCHANGED <<buf, resp, n, p, uri_path, created, ret, sent, reply, calls>>

\* variant: the failure of coap_msg_add_op is logged but the function goes on
AddOpFallsThrough(at, k, text, next) ==
    /\ pc = at
    /\ visited' = Append(visited, at)
    /\ buf0' = buf0
    /\ UNCHANGED others
    /\ \E rc \in BuildResults :
        /\ calls' = Append(calls, [fn |-> "coap_msg_add_op", rc |-> rc])
        /\ IF rc < 0
           THEN /\ LogError("Failed to set URI path in request message", <<>>)
                /\ ret' = rc
                /\ pc' = next
                /\ UNCHANGED <<req, resp, life>>
           ELSE /\ req' = MsgAddOp(req, COAP_MSG_URI_PATH, SubSeq(text, 1, k))
                /\ pc' = next
                /\ UNCHANGED <<resp, ret, log, life>>
    /\ UNCHANGED <<buf, len, n, p, uri_path, created, sent, reply>>

\* ret = coap_msg_add_op(&req, COAP_MSG_URI_PATH, k, text), and its failure branch
AddOp(at, k, text, next) ==
    /\ pc = at
    /\ visited' = Append(visited, at)
    /\ buf0' = buf0
    /\ UNCHANGED others
    /\ \E rc \in BuildResults :
        /\ calls' = Append(calls, [fn |-> "coap_msg_add_op", rc |-> rc])
        /\ IF rc < 0
           THEN /\ LogError("Failed to set URI path in request message", <<>>)
                /\ Return(rc, {"req"})
           ELSE /\ req' = MsgAddOp(req, COAP_MSG_URI_PATH, SubSeq(text, 1, k))
                /\ pc' = next
                /\ UNCHANGED <<resp, ret, log, life>>
    /\ UNCHANGED <<buf, len, n, p, uri_path, created, sent, reply>>

\* variant: the second segment repeats the first
AddOpIdRepeatsClient == AddOp("add_op_id", 6, StrClient, "set_payload")

AddOpClient == AddOp("add_op_client", 6, StrClient, "add_op_id")

AddOpId == AddOp("add_op_id", 2, StrId, "set_payload")

\* variant: the whole capacity of the buffer is sent, not the text in it
SetPayloadWholeBuffer ==
    /\ pc = "set_payload"
    /\ visited' = Append(visited, "set_payload")
    /\ buf0' = buf0
    /\ UNCHANGED others
    /\ \E rc \in BuildResults :
        /\ calls' = Append(calls, [fn |-> "coap_msg_set_payload", rc |-> rc])
        /\ IF rc < 0
           THEN /\ LogError("Failed to set payload in request message", <<>>)
                /\ Return(rc, {"req"})
           ELSE /\ req' = MsgSetPayload(req, SubSeq(buf, 1, len))
                /\ pc' = "exchange"
                /\ UNCHANGED <<resp, ret, log, life>>
    /\ UNCHANGED <<buf, len, n, p, uri_path, created, sent, reply>>

\* ret = coap_msg_set_payload(&req, buf, strlen(buf)), and its failure branch
SetPayload ==
    /\ pc = "set_payload"
    /\ visited' = Append(visited, "set_payload")
    /\ buf0' = buf0
    /\ UNCHANGED others
    /\ \E rc \in BuildResults :
        /\ calls' = Append(calls, [fn |-> "coap_msg_set_payload", rc |-> rc])
        /\ IF rc < 0
           THEN /\ LogError("Failed to set payload in request message", <<>>)
                /\ Return(rc, {"req"})
           ELSE /\ req' = MsgSetPayload(req, SubSeq(buf, 1, StrLen(buf)))
                /\ pc' = "exchange"
                /\ UNCHANGED <<resp, ret, log, life>>
    /\ UNCHANGED <<buf, len, n, p, uri_path, created, sent, reply>>

\* variant: the failure is logged whatever the code
ExchangeLoggedAlways(rc) == TRUE

\* ret != -1: a return value of -1 is a DTLS failure, logged already
ExchangeLogged(rc) == rc # -1

\* coap_msg_create(&resp); ret = coap_client_exchange(client, &req, &resp)
\* with the transport answering from the set rs
ExchangeWith(rs) ==
    /\ pc = "exchange"
    /\ visited' = Append(visited, "exchange")
    /\ buf0' = buf0
    /\ UNCHANGED others
    /\ sent' = Append(sent, req)
    /\ \E rc \in ExchangeResults :
        /\ calls' = Append(calls, [fn |-> "coap_client_exchange", rc |-> rc])
        /\ IF rc < 0
           THEN /\ IF ExchangeLogged(rc)
                   THEN LogError("strerror", <<-rc>>)
                   ELSE log' = log
                /\ ret' = rc
                /\ pc' = "done"
                /\ life' = Destroy(Destroy(Create(life, "resp"), "resp"), "req")
                /\ req' = ZeroMsg
                /\ resp' = ZeroMsg
                /\ reply' = reply
           ELSE /\ \E r \in rs :
                     /\ resp' = r
                     /\ reply' = Append(reply, r)
                /\ life' = Create(life, "resp")
                /\ pc' = "check_ver"
                /\ UNCHANGED <<req, ret, log>>
    /\ UNCHANGED <<buf, len, n, p, uri_path, created>>

Exchange == ExchangeWith(Replies)

\* variant: a version mismatch makes the call repeat the exchange
CheckVerRetries ==
    /\ pc = "check_ver"
    /\ visited' = Append(visited, "check_ver")
    /\ buf0' = buf0
    /\ UNCHANGED others
    /\ IF VersionInvalid(req, resp)
       THEN /\ LogError("Received response message with invalid version", <<resp.ver>>)
            /\ life' = Destroy(life, "resp")
            /\ resp' = ZeroMsg
            /\ pc' = "exchange"
            /\ UNCHANGED <<req, ret>>
       ELSE /\ pc' = "check_code"
            /\ UNCHANGED <<req, resp, ret, log, life>>
    /\ UNCHANGED <<buf, len, n, p, uri_path, created, sent, reply, calls>>

\* lines 153-159
CheckVer ==
    /\ pc = "check_ver"
    /\ visited' = Append(visited, "check_ver")
    /\ buf0' = buf0
    /\ UNCHANGED others
    /\ IF VersionInvalid(req, resp)
       THEN /\ LogError("Received response message with invalid version", <<resp.ver>>)
            /\ Return(-EBADMSG, {"resp", "req"})
       ELSE /\ pc' = "check_code"
            /\ UNCHANGED <<req, resp, ret, log, life>>
    /\ UNCHANGED <<buf, len, n, p, uri_path, created, sent, reply, calls>>

\* lines 160-169
CheckCode ==
    /\ pc = "check_code"
    /\ visited' = Append(visited, "check_code")
    /\ buf0' = buf0
    /\ UNCHANGED others
    /\ IF CodeInvalid(resp)
       THEN /\ LogError("Received response message with invalid code class, code detail",
                        <<resp.code_class, resp.code_detail>>)
            /\ Return(-EBADMSG, {"resp", "req"})
            /\ created' = created
       ELSE /\ created' = IsCreated(resp)
            /\ pc' = "uri_path"
            /\ UNCHANGED <<req, resp, ret, log, life>>
    /\ UNCHANGED <<buf, len, n, p, uri_path, sent, reply, calls>>

\* lines 170-177
UriPath ==
    /\ pc = "uri_path"
    /\ visited' = Append(visited, "uri_path")
    /\ buf0' = buf0
    /\ UNCHANGED others
    /\ n' = UriPathStrLen(resp)
    /\ uri_path' = UriPathToStr(resp, REG_CLIENT_URI_PATH_BUF_LEN)
    /\ IF UriPathTooSmall(n')
       THEN /\ LogError("URI path buffer too small by bytes",
                        <<Shortfall(n', REG_CLIENT_URI_PATH_BUF_LEN)>>)
            /\ Return(-ENOSPC, {"resp", "req"})
       ELSE /\ pc' = "cmp_path"
            /\ UNCHANGED <<req, resp, ret, log, life>>
    /\ UNCHANGED <<buf, len, p, created, sent, reply, calls>>

\* lines 178-184
CmpPath ==
    /\ pc = "cmp_path"
    /\ visited' = Append(visited, "cmp_path")
    /\ buf0' = buf0
    /\ UNCHANGED others
    /\ IF UriPathInvalid(uri_path)
       THEN /\ LogError("Received response message with invalid URI path", <<CStr(uri_path)>>)
            /\ Return(-EBADMSG, {"resp", "req"})
       ELSE /\ pc' = "get_payload"
            /\ UNCHANGED <<req, resp, ret, log, life>>
    /\ UNCHANGED <<buf, len, n, p, uri_path, created, sent, reply, calls>>

\* variant: the payload is copied as soon as it is fetched
GetPayloadCopiesEarly ==
    /\ pc = "get_payload"
    /\ visited' = Append(visited, "get_payload")
    /\ buf0' = buf0
    /\ UNCHANGED others
    /\ p' = resp.payload
    /\ n' = Len(resp.payload)
    /\ buf' = MemCpy(buf, p', n')
    /\ IF PayloadInvalid(resp)
       THEN /\ LogError("Received response message with invalid payload", <<>>)
            /\ Return(-EBADMSG, {"resp", "req"})
       ELSE /\ pc' = "check_len"
            /\ UNCHANGED <<req, resp, ret, log, life>>
    /\ UNCHANGED <<len, uri_path, created, sent, reply, calls>>

\* lines 185-193
GetPayload ==
    /\ pc = "get_payload"
    /\ visited' = Append(visited, "get_payload")
    /\ buf0' = buf0
    /\ UNCHANGED others
    /\ p' = resp.payload
    /\ n' = Len(resp.payload)
    /\ IF PayloadInvalid(resp)
       THEN /\ LogError("Received response message with invalid payload", <<>>)
            /\ Return(-EBADMSG, {"resp", "req"})
       ELSE /\ pc' = "check_len"
            /\ UNCHANGED <<req, resp, ret, log, life>>
    /\ UNCHANGED <<buf, len, uri_path, created, sent, reply, calls>>

\* lines 194-200
CheckLen ==
    /\ pc = "check_len"
    /\ visited' = Append(visited, "check_len")
    /\ buf0' = buf0
    /\ UNCHANGED others
    /\ IF BufTooSmall(n, len)
       THEN /\ LogError("Payload buffer too small by bytes", <<Shortfall(n, len)>>)
            /\ Return(-ENOSPC, {"resp", "req"})
       ELSE /\ pc' = "copy"
            /\ UNCHANGED <<req, resp, ret, log, life>>
    /\ UNCHANGED <<buf, len, n, p, uri_path, created, sent, reply, calls>>

\* lines 201-204
Copy ==
    /\ pc = "copy"
    /\ visited' = Append(visited, "copy")
    /\ buf0' = buf0
    /\ UNCHANGED others
    /\ buf' = CopyPayload(buf, p, n, len)
    /\ life' = Destroy(Destroy(life, "resp"), "req")
    /\ req' = ZeroMsg
    /\ resp' = ZeroMsg
    /\ pc' = "check_ack"
    /\ UNCHANGED <<len, n, p, uri_path, created, ret, log, sent, reply, calls>>

\* lines 205-212
CheckAck ==
    /\ pc = "check_ack"
    /\ visited' = Append(visited, "check_ack")
    /\ buf0' = buf0
    /\ UNCHANGED others
    /\ IF AckInvalid(buf)
       THEN /\ LogError("Received response message with unexpected payload", <<CStr(buf)>>)
            /\ ret' = -EBADMSG
       ELSE /\ LogInfo("Received response with payload",
                       <<created, CStr(uri_path), CStr(buf)>>)
            /\ ret' = n
    /\ pc' = "done"
    /\ UNCHANGED <<buf, len, req, resp, n, p, uri_path, created, life, sent, reply, calls>>

\* what reg_client_register hands back: int reg_client_register(...) returns
\* one int and has no other output parameter than buf
Returned == [ret |-> ret]

Next ==
    \/ Call
    \/ AddOpClient
    \/ AddOpId
    \/ SetPayload
    \/ Exchange
    \/ CheckVer
    \/ CheckCode
    \/ UriPath
    \/ CmpPath
    \/ GetPayload
    \/ CheckLen
    \/ Copy
    \/ CheckAck

Spec == Init /\ [][Next]_vars

(***************************************************************************)
(* Vocabulary of the properties: a response as the protocol describes it.  *)
(***************************************************************************)
Range(sq) == {sq[i] : i \in 1..Len(sq)}

Done == pc = "done"

\* the exchange delivered a response
Answered == Len(reply) = 1

Success == Done /\ ret >= 0

VersionMatches(r) == r.ver = sent[1].ver

StatusAccepted(r) ==
    /\ r.code_class = COAP_MSG_SUCCESS
    /\ r.code_detail \in {COAP_MSG_CREATED, COAP_MSG_CHANGED}

RenderedLen(r) == Len(RenderPath(r.ops))

PathFits(r) == RenderedLen(r) + 1 <= REG_CLIENT_URI_PATH_BUF_LEN

PathIsClientId(r) == RenderPath(r.ops) = <<47, 99, 108, 105, 101, 110, 116, 47, 105, 100>>

PayloadPresent(r) == r.has_payload /\ Len(r.payload) >= 1

PayloadFits(r, l) == Len(r.payload) + 1 <= l

\* the payload read as text: its bytes up to the first zero byte
PayloadText(r) == CStr(r.payload \o <<NUL>>)

LastLog == log[Len(log)]

ErrorEntries == {i \in 1..Len(log) : log[i].level = "error"}

(***************************************************************************)
(* C1: reg_client_register returns a non-negative result only if the       *)
(* exchange succeeded and the response has the request's version, status   *)
(* 2.01 or 2.04, a URI path rendering to "/client/id", a non-empty payload *)
(* and payload length + 1 <= len; every other response gets a negative     *)
(* result.                                                                 *)
(***************************************************************************)
C1_SuccessOnlyIfResponseValid ==
    Success =>
        /\ Answered
        /\ VersionMatches(reply[1])
        /\ StatusAccepted(reply[1])
        /\ PathIsClientId(reply[1])
        /\ PayloadPresent(reply[1])
        /\ PayloadFits(reply[1], len)

C1_Witness ==
    /\ Success
    /\ Answered
    /\ reply[1].code_detail = COAP_MSG_CREATED
    /\ "check_ack" \in Range(visited)

(***************************************************************************)
(* C2 (as claimed): a response is accepted only if its payload is exactly  *)
(* the two bytes 'O', 'K', so that every successful call returns 2.        *)
(***************************************************************************)
C2_AcceptedOnlyIfPayloadIsExactlyOK ==
    Success => (reply[1].payload = <<79, 75>> /\ ret = 2)

(***************************************************************************)
(* C3: the checks run in the order version, status, URI path size, URI     *)
(* path equality, payload presence, capacity, copy, acknowledgement; the   *)
(* call returns the error of the first check that fails and executes no    *)
(* later step.                                                             *)
(***************************************************************************)
CheckOrder ==
    <<"check_ver", "check_code", "uri_path", "cmp_path", "get_payload",
      "check_len", "copy", "check_ack">>

BuildOrder == <<"call", "add_op_client", "add_op_id", "set_payload", "exchange">>

\* does the i-th step of CheckOrder reject response r with capacity l
FailsAt(i, r, l) ==
    CASE i = 1 -> ~VersionMatches(r)
      [] i = 2 -> ~StatusAccepted(r)
      [] i = 3 -> ~PathFits(r)
      [] i = 4 -> ~PathIsClientId(r)
      [] i = 5 -> ~PayloadPresent(r)
      [] i = 6 -> ~PayloadFits(r, l)
      [] i = 7 -> FALSE
      [] i = 8 -> PayloadText(r) # <<79, 75>>

ErrorAt(i) == IF i \in {3, 6} THEN -ENOSPC ELSE -EBADMSG

Failing(r, l) == {i \in 1..Len(CheckOrder) : FailsAt(i, r, l)}

FirstFailing(r, l) == CHOOSE i \in Failing(r, l) : \A j \in Failing(r, l) : i <= j

C3_FirstFailingCheckDecides ==
    (Done /\ Answered) =>
        IF Failing(reply[1], len) = {}
        THEN /\ ret = Len(reply[1].payload)
             /\ visited = BuildOrder \o CheckOrder
        ELSE /\ ret = ErrorAt(FirstFailing(reply[1], len))
             /\ visited = BuildOrder \o SubSeq(CheckOrder, 1, FirstFailing(reply[1], len))

\* an unacceptable status together with an over-long URI path
C3_Witness ==
    /\ Done
    /\ Answered
    /\ VersionMatches(reply[1])
    /\ ~StatusAccepted(reply[1])
    /\ ~PathFits(reply[1])
    /\ ret = -EBADMSG
    /\ "uri_path" \notin Range(visited)

(***************************************************************************)
(* C4: whenever the request is built, the request handed to the exchange   *)
(* is a Confirmable POST whose URI path options are "client" then "id"     *)
(* and no others, and whose payload is the identity string of the buffer.  *)
(***************************************************************************)
C4_RequestIsPostClientId ==
    \A i \in 1..Len(sent) :
        /\ sent[i].type = COAP_MSG_CON
        /\ sent[i].code_class = COAP_MSG_REQ
        /\ sent[i].code_detail = COAP_MSG_POST
        /\ sent[i].ops = <<[num |-> COAP_MSG_URI_PATH, val |-> <<99, 108, 105, 101, 110, 116>>],
                           [num |-> COAP_MSG_URI_PATH, val |-> <<105, 100>>]>>
        /\ sent[i].payload = CStr(buf0)

C4_Witness ==
    /\ Len(sent) = 1
    /\ Len(sent[1].payload) = MemLen - 1
    /\ sent[1].payload = CStr(buf0)

(***************************************************************************)
(* C5 (as claimed): on success the caller is handed the payload length     *)
(* together with a created flag that is true iff the status detail was     *)
(* Created.                                                                *)
(***************************************************************************)
C5_ReturnsLengthAndCreatedFlag ==
    Success =>
        /\ Returned.ret = Len(reply[1].payload)
        /\ "created" \in DOMAIN Returned
        /\ Returned.created = (reply[1].code_detail = COAP_MSG_CREATED)

(***************************************************************************)
(* C5 (amended): on success the only value returned is the payload length; *)
(* the created flag is true iff the status detail was Created (false for   *)
(* Changed) and is reported in the success log entry only; every other     *)
(* class/detail combination yields -EBADMSG.                               *)
(***************************************************************************)
C5_CreatedFlagIsLoggedOnly ==
    /\ Success =>
        /\ DOMAIN Returned = {"ret"}
        /\ Returned.ret = Len(reply[1].payload)
        /\ reply[1].code_detail \in {COAP_MSG_CREATED, COAP_MSG_CHANGED}
        /\ created = (reply[1].code_detail = COAP_MSG_CREATED)
        /\ LastLog.level = "info"
        /\ LastLog.val[1] = (reply[1].code_detail = COAP_MSG_CREATED)
    /\ (Done /\ Answered /\ ~StatusAccepted(reply[1])) => ret = -EBADMSG

C5_Witness ==
    /\ Success
    /\ reply[1].code_detail = COAP_MSG_CHANGED
    /\ created = FALSE
    /\ LastLog.val[1] = FALSE

(***************************************************************************)
(* C6: a call that does not reach the copy leaves the caller's buffer as   *)
(* it was: after a build failure, a transport error or a rejection by the  *)
(* version, status, URI path, payload presence or capacity check the       *)
(* buffer equals the buffer before the call.                               *)
(***************************************************************************)
C6_BufferUnchangedBeforeCopy ==
    ("copy" \notin Range(visited)) => buf = buf0

\* a response rejected by the capacity check, whose payload differs from
\* what the buffer holds
C6_Witness ==
    /\ Done
    /\ Answered
    /\ visited[Len(visited)] = "check_len"
    /\ ret = -ENOSPC
    /\ len >= 1
    /\ reply[1].payload[1] # buf0[1]
    /\ buf = buf0

(***************************************************************************)
(* C7 (as claimed): every answered call with payload length + 1 > len      *)
(* returns -ENOSPC and reports the shortfall (payload length + 1) - len,   *)
(* payload length 0 included.                                              *)
(***************************************************************************)
C7_TooSmallWheneverPayloadExceeds ==
    (Done /\ Answered /\ ~PayloadFits(reply[1], len)) =>
        /\ ret = -ENOSPC
        /\ LastLog.level = "error"
        /\ LastLog.val = <<(Len(reply[1].payload) + 1) - len>>

(***************************************************************************)
(* C7 (amended): a response that passed the version, status, URI path and  *)
(* payload presence checks and has payload length + 1 > len makes the call *)
(* return -ENOSPC and report the shortfall (payload length + 1) - len,     *)
(* also for len = 0.                                                       *)
(***************************************************************************)
C7_TooSmallAfterEarlierChecks ==
    (/\ Done
     /\ Answered
     /\ VersionMatches(reply[1])
     /\ StatusAccepted(reply[1])
     /\ PathIsClientId(reply[1])
     /\ PayloadPresent(reply[1])
     /\ ~PayloadFits(reply[1], len)) =>
        /\ ret = -ENOSPC
        /\ Cardinality(ErrorEntries) = 1
        /\ LastLog.level = "error"
        /\ LastLog.msg = "Payload buffer too small by bytes"
        /\ LastLog.val = <<(Len(reply[1].payload) + 1) - len>>

C7_Witness ==
    /\ Done
    /\ Answered
    /\ len = 0
    /\ ret = -ENOSPC
    /\ LastLog.msg = "Payload buffer too small by bytes"
    /\ LastLog.val = <<Len(reply[1].payload) + 1>>
    /\ Len(reply[1].payload) = MaxPayloadLen

(***************************************************************************)
(* C8 (as claimed): every answered call whose response renders a URI path  *)
(* other than "/client/id" returns -EBADMSG, whatever the length of the    *)
(* rendered path.                                                          *)
(***************************************************************************)
C8_WrongPathIsProtocolError ==
    (Done /\ Answered /\ ~PathIsClientId(reply[1])) => ret = -EBADMSG

(***************************************************************************)
(* C8 (amended): every answered call whose response renders a URI path     *)
(* other than "/client/id" fails, whatever the status, the payload and the *)
(* capacity: with -ENOSPC when version and status are accepted and the     *)
(* rendered path plus terminator exceeds the 32 byte buffer, with -EBADMSG *)
(* otherwise.                                                              *)
(***************************************************************************)
C8_WrongPathFails ==
    (Done /\ Answered /\ ~PathIsClientId(reply[1])) =>
        ret = IF /\ VersionMatches(reply[1])
                 /\ StatusAccepted(reply[1])
                 /\ RenderedLen(reply[1]) + 1 > 32
              THEN -ENOSPC
              ELSE -EBADMSG

\* a wrong path of fitting length in an otherwise acceptable response
C8_Witness ==
    /\ Done
    /\ Answered
    /\ visited[Len(visited)] = "cmp_path"
    /\ RenderedLen(reply[1]) = 31
    /\ reply[1].payload = <<79, 75>>
    /\ len >= 3
    /\ ret = -EBADMSG

(***************************************************************************)
(* C9 (as claimed): every answered call whose response has no payload      *)
(* returns -EBADMSG and copies nothing, whatever the other fields are.     *)
(***************************************************************************)
C9_NoPayloadIsProtocolError ==
    (Done /\ Answered /\ ~PayloadPresent(reply[1])) =>
        /\ ret = -EBADMSG
        /\ "copy" \notin Range(visited)

(***************************************************************************)
(* C9 (amended): every answered call whose response has no payload fails   *)
(* and copies nothing into the caller's buffer: with -ENOSPC when version  *)
(* and status are accepted and the rendered URI path plus terminator       *)
(* exceeds the 32 byte buffer, with -EBADMSG otherwise.                    *)
(***************************************************************************)
C9_NoPayloadFailsWithoutCopy ==
    (Done /\ Answered /\ ~PayloadPresent(reply[1])) =>
        /\ "copy" \notin Range(visited)
        /\ buf = buf0
        /\ ret = IF /\ VersionMatches(reply[1])
                    /\ StatusAccepted(reply[1])
                    /\ RenderedLen(reply[1]) + 1 > 32
                 THEN -ENOSPC
                 ELSE -EBADMSG

\* the payload presence check itself rejects, with room in the buffer
C9_Witness ==
    /\ Done
    /\ Answered
    /\ visited[Len(visited)] = "get_payload"
    /\ reply[1].payload = <<>>
    /\ len >= 1
    /\ ret = -EBADMSG
    /\ buf = buf0

(***************************************************************************)
(* C10: after a successful call with payload length n and capacity len the *)
(* result is n, bytes 0..n-1 of the buffer are the payload and bytes       *)
(* n..len-1 are zero.                                                      *)
(***************************************************************************)
C10_BufferHoldsPayloadThenZeros ==
    Success =>
        /\ ret = Len(reply[1].payload)
        /\ \A i \in 1..Len(reply[1].payload) : buf[i] = reply[1].payload[i]
        /\ \A i \in (Len(reply[1].payload) + 1)..len : buf[i] = 0

\* stale non-zero bytes behind the terminator were cleared
C10_Witness ==
    /\ Success
    /\ ret = 2
    /\ len = MemLen
    /\ \A i \in 3..len : buf0[i] # 0 /\ buf[i] = 0

(***************************************************************************)
(* C11 (as claimed): when the exchange fails the call returns the          *)
(* transport's code and validates and copies nothing; it writes exactly    *)
(* one error log line for a code other than -1 and no log line at all for  *)
(* -1.                                                                     *)
(***************************************************************************)
ExchangeFailed ==
    /\ Done
    /\ calls # <<>>
    /\ calls[Len(calls)].fn = "coap_client_exchange"
    /\ calls[Len(calls)].rc < 0

C11_SentinelLeavesLogEmpty ==
    ExchangeFailed =>
        /\ ret = calls[Len(calls)].rc
        /\ ret # -1 => Cardinality(ErrorEntries) = 1
        /\ ret = -1 => log = <<>>

(***************************************************************************)
(* C11 (amended): when the exchange fails the call returns the transport's *)
(* code unchanged and validates and copies nothing; besides the            *)
(* informational "Sending" line written before the exchange it writes      *)
(* exactly one error log line for a code other than -1 and no further log  *)
(* line for -1.                                                            *)
(***************************************************************************)
C11_TransportErrorPropagated ==
    ExchangeFailed =>
        /\ ret = calls[Len(calls)].rc
        /\ visited = BuildOrder
        /\ reply = <<>>
        /\ buf = buf0
        /\ log[1].level = "info"
        /\ Cardinality(ErrorEntries) = (IF ret = -1 THEN 0 ELSE 1)
        /\ Len(log) = 1 + Cardinality(ErrorEntries)

\* the DTLS failure: nothing is logged after the "Sending" line
C11_Witness ==
    /\ ExchangeFailed
    /\ ret = -1
    /\ Len(log) = 1
    /\ log[1].msg = "Sending POST /client/id request with payload"

(***************************************************************************)
(* C12: on every exit path each message object created during the call     *)
(* (the request, and the response once created) has been destroyed exactly *)
(* once when the call returns, and no step reads a message after it was    *)
(* destroyed.                                                              *)
(***************************************************************************)
Live(x) == life[x].created = 1 /\ life[x].destroyed = 0

\* the steps that read the request, and those that read the response (the
\* copy reads the payload the response owns)
ReadsReq == {"add_op_client", "add_op_id", "set_payload", "exchange", "check_ver"}

ReadsResp == {"check_ver", "check_code", "uri_path", "get_payload", "copy"}

C12_MessagesDestroyedExactlyOnce ==
    /\ \A x \in DOMAIN life :
        /\ life[x].created <= 1
        /\ life[x].destroyed <= life[x].created
    /\ Done =>
        /\ life["req"].created = 1
        /\ life["resp"].created = (IF "exchange" \in Range(visited) THEN 1 ELSE 0)
        /\ \A x \in DOMAIN life : life[x].destroyed = life[x].created
    /\ pc \in ReadsReq => Live("req")
    /\ pc \in ReadsResp => Live("resp")

\* a rejected response: both messages were created and destroyed once
C12_Witness ==
    /\ Done
    /\ Answered
    /\ ret = -ENOSPC
    /\ life["req"] = [created |-> 1, destroyed |-> 1]
    /\ life["resp"] = [created |-> 1, destroyed |-> 1]

(***************************************************************************)
(* C13: within one call coap_client_exchange is invoked at most once:      *)
(* exactly once when the three build calls succeeded, never when one of    *)
(* them failed, and not again after a validation failure.                  *)
(***************************************************************************)
ExchangeCalls == {i \in 1..Len(calls) : calls[i].fn = "coap_client_exchange"}

BuildCalls == {i \in 1..Len(calls) : calls[i].fn # "coap_client_exchange"}

BuildFailed == \E i \in BuildCalls : calls[i].rc < 0

BuildSucceeded == Cardinality({i \in BuildCalls : calls[i].rc = 0}) = 3

C13_ExchangeAtMostOnce ==
    /\ Cardinality(ExchangeCalls) <= 1
    /\ Len(sent) = Cardinality(ExchangeCalls)
    /\ BuildFailed => ExchangeCalls = {}
    /\ Done => (BuildFailed \/ BuildSucceeded)
    /\ (Done /\ BuildSucceeded) => Cardinality(ExchangeCalls) = 1

\* a response rejected by a validation check: one exchange, no second one
C13_Witness ==
    /\ Done
    /\ Answered
    /\ ret = -EBADMSG
    /\ BuildSucceeded
    /\ Cardinality(ExchangeCalls) = 1
    /\ visited[Len(visited)] = "check_ver"

(***************************************************************************)
(* C14 (as claimed): a call in which a received response is rejected       *)
(* writes exactly one error log entry, which carries the offending field   *)
(* value; a successful call writes no error log entry.                     *)
(***************************************************************************)
C14_RejectionLoggedWithValue ==
    /\ (Done /\ Answered /\ ret < 0) =>
        /\ Cardinality(ErrorEntries) = 1
        /\ LastLog.level = "error"
        /\ LastLog.val # <<>>
    /\ Success => ErrorEntries = {}

(***************************************************************************)
(* C14 (amended): a call in which a received response is rejected writes   *)
(* exactly one error log entry before it returns: with the response's      *)
(* version, its class and detail, the rendered path or the copied payload  *)
(* text for the version, status, path mismatch and acknowledgement         *)
(* rejections, with the shortfall in bytes for the two size rejections,    *)
(* and with no value for the payload presence rejection; a successful call *)
(* writes no error log entry.                                              *)
(***************************************************************************)
\* what the entry of the i-th step of CheckOrder carries
LoggedAt(i, r, l) ==
    CASE i = 1 -> <<r.ver>>
      [] i = 2 -> <<r.code_class, r.code_detail>>
      [] i = 3 -> <<(RenderedLen(r) + 1) - 32>>
      [] i = 4 -> <<RenderPath(r.ops)>>
      [] i = 5 -> <<>>
      [] i = 6 -> <<(Len(r.payload) + 1) - l>>
      [] i = 8 -> <<PayloadText(r)>>

C14_RejectionLoggedOnce ==
    (Done /\ Answered) =>
        IF Failing(reply[1], len) = {}
        THEN ErrorEntries = {}
        ELSE /\ ret < 0
             /\ Cardinality(ErrorEntries) = 1
             /\ LastLog.level = "error"
             /\ LastLog.val = LoggedAt(FirstFailing(reply[1], len), reply[1], len)

\* an acknowledgement other than "OK": the entry carries the copied text
C14_Witness ==
    /\ Done
    /\ Answered
    /\ visited[Len(visited)] = "check_ack"
    /\ ret = -EBADMSG
    /\ Cardinality(ErrorEntries) = 1
    /\ LastLog.val = <<<<75, 79>>>>

(***************************************************************************)
(* C15: once the version and status checks passed, a URI path rendering to *)
(* k characters makes the call fail with -ENOSPC and the reported          *)
(* shortfall (k + 1) - 32 if and only if k + 1 > 32; a path of exactly 31  *)
(* characters passes the size check and is compared with "/client/id".     *)
(***************************************************************************)
PathRejectedForSize ==
    /\ ret = -ENOSPC
    /\ visited[Len(visited)] = "uri_path"
    /\ LastLog.msg = "URI path buffer too small by bytes"
    /\ LastLog.val = <<(RenderedLen(reply[1]) + 1) - REG_CLIENT_URI_PATH_BUF_LEN>>

C15_PathSizeCheck ==
    (Done /\ Answered /\ VersionMatches(reply[1]) /\ StatusAccepted(reply[1])) =>
        /\ PathRejectedForSize <=> (RenderedLen(reply[1]) + 1 > REG_CLIENT_URI_PATH_BUF_LEN)
        /\ PathFits(reply[1]) => "cmp_path" \in Range(visited)

\* a path of 34 characters: too small by 3 bytes
C15_Witness ==
    /\ Done
    /\ Answered
    /\ RenderedLen(reply[1]) = 34
    /\ PathRejectedForSize
    /\ LastLog.val = <<3>>

\* a path of exactly 31 characters reaches the comparison
C15_WitnessFits ==
    /\ Done
    /\ Answered
    /\ RenderedLen(reply[1]) = 31
    /\ visited[Len(visited)] = "cmp_path"

(***************************************************************************)
(* C16: when a step of the request construction is rejected (first path    *)
(* segment, second path segment, payload), the call returns the code of    *)
(* the rejected step unchanged, that step is the last library call of the  *)
(* call and the only rejected one, no response message is ever created and *)
(* the exchange is never invoked.                                          *)
(***************************************************************************)
BuildStep == <<"add_op_client", "add_op_id", "set_payload">>

C16_BuildFailureStopsCall ==
    BuildFailed =>
        /\ Done
        /\ calls[Len(calls)].rc < 0
        /\ ret = calls[Len(calls)].rc
        /\ \A i \in 1..(Len(calls) - 1) : calls[i].rc = 0
        /\ visited[Len(visited)] = BuildStep[Len(calls)]
        /\ life["resp"].created = 0
        /\ ExchangeCalls = {}
        /\ sent = <<>>
        /\ reply = <<>>
        /\ buf = buf0

\* the second path segment is rejected after the first was accepted
C16_Witness ==
    /\ Done
    /\ BuildFailed
    /\ Len(calls) = 2
    /\ calls[1].rc = 0
    /\ ret = -ENOMEM
    /\ visited[Len(visited)] = "add_op_id"

(***************************************************************************)
(* C17: the bytes of the caller's memory at and beyond the capacity len    *)
(* are never written, whatever len is (0 and 1 included); and once the     *)
(* copy is performed the payload length n satisfies n + 1 <= len and the   *)
(* buffer holds a zero byte at index n, so the comparison with "OK" ends   *)
(* inside the capacity.                                                    *)
(***************************************************************************)
Copied == "copy" \in Range(visited)

C17_WritesStayInsideCapacity ==
    /\ \A i \in (len + 1)..MemLen : buf[i] = buf0[i]
    /\ Copied =>
        /\ n >= 1
        /\ n + 1 <= len
        /\ buf[n + 1] = NUL
        /\ StrLen(buf) <= n
        /\ StrLen(SubSeq(buf, 1, len)) = StrLen(buf)

\* a payload that fills the capacity exactly, with a stale non-zero byte
\* right behind the capacity
C17_Witness ==
    /\ Done
    /\ Copied
    /\ n + 1 = len
    /\ len < MemLen
    /\ buf0[len + 1] # NUL
    /\ buf[len + 1] = buf0[len + 1]
    /\ buf # buf0

\* capacity 0 and capacity 1: nothing is ever written
C17_WitnessTiny ==
    /\ Done
    /\ Answered
    /\ len <= 1
    /\ visited[Len(visited)] = "check_len"
    /\ buf = buf0

(***************************************************************************)
(* A caller that registers several times with one buffer: after a call     *)
(* has returned, the caller either leaves the buffer as the call left it   *)
(* or writes an identity into it again, and calls reg_client_register      *)
(* once more.  Every local of the function is initialised at entry.        *)
(***************************************************************************)
MaxCalls == 2

\* identities of one character and of MemLen - 1 characters
SeqBuffers ==
    {[i \in 1..MemLen |-> IF i = k THEN NUL ELSE ChK] : k \in {2, MemLen}}

SeqPayloads ==
    {<<ChO, ChK>>, <<ChK>>, <<ChO, ChK, NUL>>, <<NUL, ChK>>, <<>>}

\* responses with the request's version and the path /client/id
SeqReplies ==
    {[ver |-> COAP_MSG_VER, type |-> COAP_MSG_ACK, code_class |-> c[1],
      code_detail |-> c[2], ops |-> <<UriPathOp(StrClient), UriPathOp(StrId)>>,
      has_payload |-> Len(b) > 0, payload |-> b] :
        c \in {<<COAP_MSG_SUCCESS, COAP_MSG_CREATED>>,
               <<COAP_MSG_CLIENT_ERR, COAP_MSG_CHANGED>>},
        b \in SeqPayloads}

ExchangeSeq == ExchangeWith(SeqReplies)

\* what the caller sees of a call that has returned
Summary ==
    [buf |-> buf,
     copied |-> "copy" \in Range(visited),
     ret |-> ret,
     payload |-> IF Len(reply) = 1 THEN reply[1].payload ELSE <<>>]

CallAgain ==
    /\ pc = "done"
    /\ Len(prev) < MaxCalls - 1
    /\ prev' = Append(prev, Summary)
    /\ \E b \in {buf} \cup SeqBuffers : buf' = b
    /\ buf0' = buf'
    /\ pc' = "idle"
    /\ len' = 0
    /\ req' = ZeroMsg
    /\ resp' = ZeroMsg
    /\ n' = 0
    /\ p' = <<>>
    /\ uri_path' = ZeroPath
    /\ created' = FALSE
    /\ ret' = 0
    /\ log' = <<>>
    /\ life' = NoLife
    /\ sent' = <<>>
    /\ reply' = <<>>
    /\ visited' = <<>>
    /\ calls' = <<>>
    /\ UNCHANGED <<clientvars, servervars>>

InitSeq ==
    /\ Init
    /\ buf \in SeqBuffers

NextSeq ==
    \/ Call
    \/ AddOpClient
    \/ AddOpId
    \/ SetPayload
    \/ ExchangeSeq
    \/ CheckVer
    \/ CheckCode
    \/ UriPath
    \/ CmpPath
    \/ GetPayload
    \/ CheckLen
    \/ Copy
    \/ CheckAck
    \/ CallAgain

SpecSeq == InitSeq /\ [][NextSeq]_vars

(***************************************************************************)
(* C18: the caller's buffer is the only state one call hands to the next.  *)
(* Every call sends the text its buffer holds at entry; on an unmodified   *)
(* buffer a call that follows one which reached the copy sends the text of *)
(* that call's response payload ("OK" after a success), not the identity;  *)
(* and the result of every call (return value and buffer) is a function of *)
(* the buffer at entry, the capacity, the return codes of the library and  *)
(* the reply alone, so equal inputs give equal results whatever calls came *)
(* before.                                                                 *)
(***************************************************************************)
LastCall == prev[Len(prev)]

\* the buffer after payload b was copied into memory m of capacity l
AfterCopy(m, b, l) ==
    [i \in 1..Len(m) |-> IF i <= Len(b) THEN b[i] ELSE IF i <= l THEN NUL ELSE m[i]]

\* return value and buffer for buffer m, capacity l, library results cs, reply rs
ResultOf(m, l, cs, rs) ==
    IF cs[Len(cs)].rc < 0
    THEN [ret |-> cs[Len(cs)].rc, buf |-> m]
    ELSE IF Failing(rs[1], l) = {}
         THEN [ret |-> Len(rs[1].payload), buf |-> AfterCopy(m, rs[1].payload, l)]
         ELSE [ret |-> ErrorAt(FirstFailing(rs[1], l)),
               buf |-> IF FirstFailing(rs[1], l) > 7
                       THEN AfterCopy(m, rs[1].payload, l)
                       ELSE m]

C18_OnlyBufferCarriesOver ==
    /\ sent # <<>> => sent[1].payload = CStr(buf0)
    /\ (prev # <<>> /\ sent # <<>> /\ buf0 = LastCall.buf /\ LastCall.copied) =>
          /\ sent[1].payload = CStr(LastCall.payload \o <<NUL>>)
          /\ LastCall.ret >= 0 => sent[1].payload = StrOK
    /\ Done => (ret = ResultOf(buf0, len, calls, reply).ret
                /\ buf = ResultOf(buf0, len, calls, reply).buf)

\* the second call on the buffer a successful call left behind sends "OK"
\* and is answered
C18_Witness ==
    /\ Done
    /\ prev # <<>>
    /\ LastCall.ret >= 0
    /\ buf0 = LastCall.buf
    /\ buf0 \notin SeqBuffers
    /\ sent # <<>>
    /\ sent[1].payload = StrOK
    /\ Answered

(***************************************************************************)
(* reg_client_create and reg_client_destroy.  coap_client_create and       *)
(* coap_client_destroy belong to the library: they return a result and     *)
(* leave any content in the structure they are handed.                     *)
(***************************************************************************)
MaxClientOps == 3

\* a byte of the structure is zero (0) or not (1)
ClientContents == [1..ClientLen -> {0, 1}]

\* results of coap_client_create: success, or the negated errno of a failure
ClientCreateResults == {0, -ENOMEM, -ETIMEDOUT}

\* everything of reg_client_register, left alone by the client operations
regidle == <<pc, buf, len, req, resp, n, p, uri_path, created, ret, life,
             sent, reply, buf0, visited, calls>>

\* lines 68-84: memset(client, 0, ...); ret = coap_client_create(&client->coap_client, ...)
ClientCreateCall ==
    /\ cpc = "rest"
    /\ Len(cops) < MaxClientOps
    /\ \E rc \in ClientCreateResults : cret' = rc
    /\ \E c \in ClientContents : client' = c
    /\ cpc' = "create_check"
    /\ UNCHANGED <<cops, log, regidle, prev, servervars>>

\* variant: the failure branch returns without clearing the structure
ClientCreateCheckKeepsPartial ==
    /\ cpc = "create_check"
    /\ IF cret < 0
       THEN /\ LogError("strerror", <<-cret>>)
            /\ client' = client
            /\ cops' = Append(cops, [op |-> "create", rc |-> cret, lib |-> cret,
                                     left |-> client])
       ELSE /\ cops' = Append(cops, [op |-> "create", rc |-> 0, lib |-> cret,
                                     left |-> client])
            /\ UNCHANGED <<client, log>>
    /\ cpc' = "rest"
    /\ UNCHANGED <<cret, regidle, prev, servervars>>

\* lines 85-91: if (ret < 0) { log; memset(client, 0, ...); return ret; } return 0;
ClientCreateCheck ==
    /\ cpc = "create_check"
    /\ IF cret < 0
       THEN /\ LogError("strerror", <<-cret>>)
            /\ client' = ZeroClient
            /\ cops' = Append(cops, [op |-> "create", rc |-> cret, lib |-> cret,
                                     left |-> client])
       ELSE /\ cops' = Append(cops, [op |-> "create", rc |-> 0, lib |-> cret,
                                     left |-> client])
            /\ UNCHANGED <<client, log>>
    /\ cpc' = "rest"
    /\ UNCHANGED <<cret, regidle, prev, servervars>>

\* line 96: coap_client_destroy(&client->coap_client)
ClientDestroyCall ==
    /\ cpc = "rest"
    /\ Len(cops) < MaxClientOps
    /\ \E c \in ClientContents : client' = c
    /\ cpc' = "destroy_clear"
    /\ UNCHANGED <<cret, cops, log, regidle, prev, servervars>>

\* line 97: memset(client, 0, sizeof(reg_client_t))
ClientDestroyClear ==
    /\ cpc = "destroy_clear"
    /\ client' = ZeroClient
    /\ cops' = Append(cops, [op |-> "destroy", rc |-> 0, lib |-> 0, left |-> client])
    /\ cpc' = "rest"
    /\ UNCHANGED <<cret, log, regidle, prev, servervars>>

\* the caller's reg_client_t before the first create: not initialised
InitClient ==
    /\ buf = [i \in 1..MemLen |-> NUL]
    /\ InitRegister
    /\ client \in ClientContents
    /\ cpc = "rest"
    /\ cret = 0
    /\ cops = <<>>
    /\ InitServerOff

NextClient ==
    \/ ClientCreateCall
    \/ ClientCreateCheck
    \/ ClientDestroyCall
    \/ ClientDestroyClear

SpecClient == InitClient /\ [][NextClient]_vars

(***************************************************************************)
(* C19: a failing reg_client_create returns the code coap_client_create    *)
(* gave it and leaves the structure all zero; reg_client_destroy leaves    *)
(* the structure all zero; hence, after any sequence of create and destroy *)
(* operations, the structure is non-zero only if the last operation was a  *)
(* successful create.                                                      *)
(***************************************************************************)
LastOp == cops[Len(cops)]

C19_ClientZeroedOutsideLifetime ==
    /\ \A i \in 1..Len(cops) :
          cops[i].op = "create" =>
              cops[i].rc = (IF cops[i].lib < 0 THEN cops[i].lib ELSE 0)
    /\ (cpc = "rest" /\ cops # <<>>) =>
          /\ (LastOp.op = "create" /\ LastOp.rc < 0) => client = ZeroClient
          /\ LastOp.op = "destroy" => client = ZeroClient
          /\ client # ZeroClient => (LastOp.op = "create" /\ LastOp.rc = 0)

\* a create that failed with a timeout after the library had written into
\* the structure, following a successful create
C19_Witness ==
    /\ cpc = "rest"
    /\ Len(cops) >= 2
    /\ cops[1].op = "create"
    /\ cops[1].rc = 0
    /\ LastOp.op = "create"
    /\ LastOp.rc = -ETIMEDOUT
    /\ LastOp.left # ZeroClient
    /\ client = ZeroClient

\* a destroy after the library left data in the structure
C19_WitnessDestroy ==
    /\ cpc = "rest"
    /\ cops # <<>>
    /\ LastOp.op = "destroy"
    /\ LastOp.left # ZeroClient
    /\ client = ZeroClient

(***************************************************************************)
(* The server: main and the request handler server_handle.  Inside         *)
(* coap_server_run the library hands requests to server_handle, each with  *)
(* a response message it has created; coap_server_create,                  *)
(* coap_server_add_sep_resp_uri_path, coap_server_run and                  *)
(* coap_server_destroy belong to the library.                              *)
(***************************************************************************)
MaxRequests == 2

\* char *payload = "Hello, Client!"
StrHello == <<72, 101, 108, 108, 111, 44, 32, 67, 108, 105, 101, 110, 116, 33>>

\* the requests the library hands to the handler
ServerRequests ==
    {[EmptyMsg EXCEPT !.code_class = COAP_MSG_REQ, !.code_detail = d, !.ops = o,
                      !.has_payload = Len(b) > 0, !.payload = b] :
        d \in {COAP_MSG_GET, COAP_MSG_POST},
        o \in {<<>>, <<UriPathOp(StrClient), UriPathOp(StrId)>>},
        b \in {<<>>, StrOK}}

\* the response the library hands to the handler: created, with or without
\* a type
FreshResponses == {EmptyMsg, [EmptyMsg EXCEPT !.type = COAP_MSG_ACK]}

\* results of coap_server_create, coap_server_add_sep_resp_uri_path, coap_server_run
ServerResults == {0, -ENOMEM}

\* results of coap_msg_set_code
SetCodeResults == {0, -EINVAL}

\* fprintf(stderr, "Error: %s\n", strerror(-rc))
PrintError(rc) == out' = Append(out, [str |-> "Error", val |-> -rc])

\* coap_server_destroy(&server)
ServerDestroy(sv) == [sv EXCEPT !.destroyed = @ + 1]

\* lines 152-164
ServerCreate ==
    /\ spc = "create"
    /\ \E rc \in ServerResults :
        /\ scalls' = Append(scalls, [fn |-> "coap_server_create", rc |-> rc])
        /\ sret' = rc
        /\ IF rc < 0
           THEN /\ PrintError(rc)
                /\ exit' = <<-1>>
                /\ spc' = "exited"
                /\ server' = server
           ELSE /\ server' = [server EXCEPT !.created = @ + 1]
                /\ spc' = "add_path"
                /\ UNCHANGED <<exit, out>>
    /\ UNCHANGED <<handled, hpc, hreq, hresp, hret, hreq0, hresp0, hcalls>>
    /\ UNCHANGED <<regvars, prev, clientvars>>

\* lines 165-171
ServerAddPath ==
    /\ spc = "add_path"
    /\ \E rc \in ServerResults :
        /\ scalls' = Append(scalls, [fn |-> "coap_server_add_sep_resp_uri_path",
                                     rc |-> rc])
        /\ sret' = rc
        /\ IF rc < 0
           THEN /\ PrintError(rc)
                /\ server' = ServerDestroy(server)
                /\ exit' = <<-1>>
                /\ spc' = "exited"
           ELSE /\ spc' = "run"
                /\ UNCHANGED <<server, exit, out>>
    /\ UNCHANGED <<handled, hpc, hreq, hresp, hret, hreq0, hresp0, hcalls>>
    /\ UNCHANGED <<regvars, prev, clientvars>>

\* lines 172-180: coap_server_run returns
ServerRunReturn ==
    /\ spc = "run"
    /\ hpc = "idle"
    /\ \E rc \in ServerResults :
        /\ scalls' = Append(scalls, [fn |-> "coap_server_run", rc |-> rc])
        /\ sret' = rc
        /\ IF rc < 0
           THEN /\ PrintError(rc)
                /\ exit' = <<-1>>
           ELSE /\ exit' = <<0>>
                /\ out' = out
        /\ server' = ServerDestroy(server)
        /\ spc' = "exited"
    /\ UNCHANGED <<handled, hpc, hreq, hresp, hret, hreq0, hresp0, hcalls>>
    /\ UNCHANGED <<regvars, prev, clientvars>>

\* lines 128-131: the library calls server_handle(server, req, resp)
HandleRequest ==
    /\ spc = "run"
    /\ hpc = "idle"
    /\ handled < MaxRequests
    /\ handled' = handled + 1
    /\ \E rq \in ServerRequests :
        /\ hreq' = rq
        /\ hreq0' = rq
    /\ \E rs \in FreshResponses :
        /\ hresp' = rs
        /\ hresp0' = rs
    /\ hret' = 0
    /\ hcalls' = <<>>
    /\ hpc' = "set_code"
    /\ UNCHANGED <<spc, server, sret, exit, scalls, out>>
    /\ UNCHANGED <<regvars, prev, clientvars>>

\* variant: a failure of coap_msg_set_code is reported but the handler goes on
HandleSetCodeIgnoresError ==
    /\ hpc = "set_code"
    /\ \E rc \in SetCodeResults :
        /\ hcalls' = Append(hcalls, [fn |-> "coap_msg_set_code", rc |-> rc])
        /\ IF rc < 0
           THEN /\ PrintError(rc)
                /\ hret' = rc
                /\ hpc' = "set_payload"
                /\ hresp' = hresp
           ELSE /\ hresp' = MsgSetCode(hresp, COAP_MSG_SUCCESS, COAP_MSG_CONTENT)
                /\ hpc' = "set_payload"
                /\ UNCHANGED <<hret, out>>
    /\ UNCHANGED <<spc, server, sret, exit, scalls, handled, hreq, hreq0, hresp0>>
    /\ UNCHANGED <<regvars, prev, clientvars>>

\* lines 133-138
HandleSetCode ==
    /\ hpc = "set_code"
    /\ \E rc \in SetCodeResults :
        /\ hcalls' = Append(hcalls, [fn |-> "coap_msg_set_code", rc |-> rc])
        /\ IF rc < 0
           THEN /\ PrintError(rc)
                /\ hret' = rc
                /\ hpc' = "returned"
                /\ hresp' = hresp
           ELSE /\ hresp' = MsgSetCode(hresp, COAP_MSG_SUCCESS, COAP_MSG_CONTENT)
                /\ hpc' = "set_payload"
                /\ UNCHANGED <<hret, out>>
    /\ UNCHANGED <<spc, server, sret, exit, scalls, handled, hreq, hreq0, hresp0>>
    /\ UNCHANGED <<regvars, prev, clientvars>>

\* lines 139-144
HandleSetPayload ==
    /\ hpc = "set_payload"
    /\ \E rc \in BuildResults :
        /\ hcalls' = Append(hcalls, [fn |-> "coap_msg_set_payload", rc |-> rc])
        /\ IF rc < 0
           THEN /\ PrintError(rc)
                /\ hret' = rc
                /\ hpc' = "returned"
                /\ hresp' = hresp
           ELSE /\ hresp' = MsgSetPayload(hresp, StrHello)
                /\ hpc' = "print"
                /\ UNCHANGED <<hret, out>>
    /\ UNCHANGED <<spc, server, sret, exit, scalls, handled, hreq, hreq0, hresp0>>
    /\ UNCHANGED <<regvars, prev, clientvars>>

\* lines 145-147: print_coap_msg reads the two messages; return 0
HandlePrint ==
    /\ hpc = "print"
    /\ out' = out \o <<[str |-> "Received:", val |-> hreq],
                       [str |-> "Sent:", val |-> hresp]>>
    /\ hret' = 0
    /\ hpc' = "returned"
    /\ UNCHANGED <<spc, server, sret, exit, scalls, handled,
                   hreq, hresp, hreq0, hresp0, hcalls>>
    /\ UNCHANGED <<regvars, prev, clientvars>>

\* server_handle has returned: the library goes on inside coap_server_run
HandleReturn ==
    /\ hpc = "returned"
    /\ hpc' = "idle"
    /\ UNCHANGED <<spc, server, sret, exit, scalls, handled,
                   hreq, hresp, hret, hreq0, hresp0, hcalls, out>>
    /\ UNCHANGED <<regvars, prev, clientvars>>

InitServer ==
    /\ buf = [i \in 1..MemLen |-> NUL]
    /\ InitRegister
    /\ InitClientReady
    /\ InitServerOff

NextServer ==
    \/ ServerCreate
    \/ ServerAddPath
    \/ ServerRunReturn
    \/ HandleRequest
    \/ HandleSetCode
    \/ HandleSetPayload
    \/ HandlePrint
    \/ HandleReturn

SpecServer == InitServer /\ [][NextServer]_vars

(***************************************************************************)
(* C20: server_handle changes nothing of the response but its code, which  *)
(* becomes 2.05 (Success / Content), and its payload, which becomes        *)
(* "Hello, Client!", and never changes the request; it returns 0 only if   *)
(* both were set, and when setting the code fails it returns that error    *)
(* and does not set the payload.  In main, coap_server_destroy runs        *)
(* exactly once on every path after a successful create and never when     *)
(* create failed, and main returns 0 only if create, the registration of   *)
(* the separate-response path and run all succeeded.                       *)
(***************************************************************************)
HandlerContract ==
    /\ hreq = hreq0
    /\ hresp.ver = hresp0.ver
    /\ hresp.type = hresp0.type
    /\ hresp.ops = hresp0.ops
    /\ <<hresp.code_class, hresp.code_detail>> \in
          {<<hresp0.code_class, hresp0.code_detail>>,
           <<COAP_MSG_SUCCESS, COAP_MSG_CONTENT>>}
    /\ hresp.payload \in {hresp0.payload, StrHello}
    /\ hpc = "returned" =>
          /\ hret = hcalls[Len(hcalls)].rc
          /\ hret = 0 =>
                /\ <<hresp.code_class, hresp.code_detail>> =
                       <<COAP_MSG_SUCCESS, COAP_MSG_CONTENT>>
                /\ hresp.has_payload
                /\ hresp.payload = StrHello
          /\ hcalls[1].rc < 0 =>
                /\ hret = hcalls[1].rc
                /\ Len(hcalls) = 1
                /\ hresp = hresp0

MainContract ==
    /\ server.created <= 1
    /\ server.destroyed <= server.created
    /\ exit = <<>> => server.destroyed = 0
    /\ exit # <<>> =>
          /\ server.created = (IF scalls[1].rc < 0 THEN 0 ELSE 1)
          /\ server.destroyed = server.created
          /\ exit[1] \in {0, -1}
          /\ exit[1] = 0 => (Len(scalls) = 3 /\ \A i \in 1..3 : scalls[i].rc >= 0)

C20_HandlerAndMainContract == HandlerContract /\ MainContract

\* run failed after a request for which setting the code had failed: the
\* response is as the library created it, the server was destroyed once
C20_Witness ==
    /\ exit = <<-1>>
    /\ Len(scalls) = 3
    /\ scalls[3].rc < 0
    /\ server = [created |-> 1, destroyed |-> 1]
    /\ handled >= 1
    /\ hret = -EINVAL
    /\ hresp = hresp0

\* create failed: nothing to destroy
C20_WitnessCreateFailed ==
    /\ exit = <<-1>>
    /\ Len(scalls) = 1
    /\ server = [created |-> 0, destroyed |-> 0]

\* a request answered with 2.05 and "Hello, Client!", then a clean exit
C20_WitnessServed ==
    /\ exit = <<0>>
    /\ hret = 0
    /\ handled >= 1
    /\ hresp.payload = StrHello
    /\ hresp.type = COAP_MSG_ACK
    /\ hreq.payload = StrOK

====
